---------------------------- MODULE Spec2Model ----------------------------
(***************************************************************************)
(* Model of src/app.py, the usage dashboard.  The script is executed top   *)
(* to bottom on every user interaction; the model follows it block by      *)
(* block: load_data and column discovery, the sidebar widgets, the global  *)
(* filter, and the four tabs.  Widget return values are the inputs of the  *)
(* step that reads them.                                                   *)
(*                                                                         *)
(* Text is a sequence of characters.  A Chinese character is one element,  *)
(* written in pinyin: '日期' is <<"ri","qi">>, '板块A' is                  *)
(* <<"ban","kuai","A">>.  A date is <<year, month, day>>.                  *)
(***************************************************************************)
EXTENDS Integers, Sequences, FiniteSets, TLC

VARIABLES pc, raw, df, ALL_ITEMS, time_unit, start_date, end_date,
          selected_district, selected_schools, filtered_df,
          target_school, school_detail, out

vars == <<pc, raw, df, ALL_ITEMS, time_unit, start_date, end_date,
          selected_district, selected_schools, filtered_df,
          target_school, school_detail, out>>

---------------------------------------------------------------------------
(* Bounds *)

\* longest row sequence of a generated spreadsheet
MaxRows == 2

\* most options the user picks one by one in a multiselect
MaxPick == 2

---------------------------------------------------------------------------
(* Selection caps of the three comparisons *)

\* line 152
CapLocal == 10
\* line 181
CapComp == 20
\* line 216
CapTeachers == 10

---------------------------------------------------------------------------
(* Column names of the source *)

RIQI == <<"ri", "qi">>
XUENIAN == <<"xue", "nian">>
YUEFEN == <<"yue", "fen">>
QU == <<"qu", "ming", "cheng">>
XUEXIAO == <<"xue", "xiao", "ming", "cheng">>
JIAOSHI == <<"jiao", "shi", "xing", "ming">>
BANKUAI_A == <<"ban", "kuai", "A">>
BANKUAI_B == <<"ban", "kuai", "B">>
\* '板块A_x': a sub-item column of segment A
BANKUAI_A_X == <<"ban", "kuai", "A", "_", "x">>
\* three plain numeric columns and a text column ('备注') a sheet may hold
COL_W == <<"w">>
COL_Y == <<"y">>
COL_Z == <<"z">>
BEIZHU == <<"bei", "zhu">>

\* '全部区域', the first option of the district selectbox
ALL_DISTRICTS == <<"quan", "bu", "qu", "yu">>

\* Python's None (a selectbox without options) and pandas' NaN (an empty cell)
None == <<"None">>
NaN == <<"NaN">>

\* dtype read_excel infers for a column of the generated sheets
DType(c) ==
  IF c \in {BANKUAI_A, BANKUAI_B, BANKUAI_A_X, COL_W, COL_Y, COL_Z} THEN "number"
  ELSE IF c = RIQI THEN "datetime"
  ELSE "object"

---------------------------------------------------------------------------
(* Text: ordering, formatting and parsing *)

\* the characters of cell values, in code point order
Alphabet == <<"-", "0", "1", "2", "3", "4", "5", "6", "7", "8", "9",
              "D", "R", "S", "T">>

CharRank(c) == CHOOSE i \in 1..Len(Alphabet) : Alphabet[i] = c

RECURSIVE StrLT(_, _)
\* Python's < on str: lexicographic by code point, a proper prefix is smaller
StrLT(a, b) ==
  IF b = <<>> THEN FALSE
  ELSE IF a = <<>> THEN TRUE
  ELSE IF Head(a) = Head(b) THEN StrLT(Tail(a), Tail(b))
  ELSE CharRank(Head(a)) < CharRank(Head(b))

\* str.startswith
StartsWith(s, p) == Len(s) >= Len(p) /\ SubSeq(s, 1, Len(p)) = p

DigitChar(n) == Alphabet[n + 2]
DigitVal(c) == CharRank(c) - 2

RECURSIVE IntToStr(_)
\* str(n) of a non-negative int
IntToStr(n) == IF n < 10 THEN <<DigitChar(n)>>
               ELSE Append(IntToStr(n \div 10), DigitChar(n % 10))

RECURSIVE StrToInt(_)
\* int(s) of a string of digits
StrToInt(s) == IF Len(s) = 1 THEN DigitVal(s[1])
               ELSE 10 * StrToInt(SubSeq(s, 1, Len(s) - 1)) + DigitVal(s[Len(s)])

\* zero-padded to width 2, as a Period prints its month
Pad2(n) == <<DigitChar(n \div 10), DigitChar(n % 10)>>

RECURSIVE SplitFirst(_, _)
\* s.split(sep)[0]
SplitFirst(s, sep) ==
  IF s = <<>> \/ Head(s) = sep THEN <<>>
  ELSE <<Head(s)>> \o SplitFirst(Tail(s), sep)

\* s.split(sep)[1:] joined again: what follows the first separator
AfterFirst(s, sep) == SubSeq(s, Len(SplitFirst(s, sep)) + 2, Len(s))

---------------------------------------------------------------------------
(* Dates *)

DateLE(a, b) ==
  \/ a[1] < b[1]
  \/ a[1] = b[1] /\ a[2] < b[2]
  \/ a[1] = b[1] /\ a[2] = b[2] /\ a[3] <= b[3]

DateLT(a, b) == DateLE(a, b) /\ a # b

\* pd.to_datetime of 'YYYY-MM-DD'
ToDatetime(s) ==
  LET y == SplitFirst(s, "-")
      r == AfterFirst(s, "-")
      m == SplitFirst(r, "-")
      d == AfterFirst(r, "-")
  IN <<StrToInt(y), StrToInt(m), StrToInt(d)>>

AcademicYearShifted(x) ==
  IF x[2] > 9 THEN IntToStr(x[1]) \o <<"-">> \o IntToStr(x[1] + 1)
  ELSE IntToStr(x[1] - 1) \o <<"-">> \o IntToStr(x[1])

\* the lambda of load_data: '学年' of a date
AcademicYear(x) ==
  IF x[2] >= 9 THEN IntToStr(x[1]) \o <<"-">> \o IntToStr(x[1] + 1)
  ELSE IntToStr(x[1] - 1) \o <<"-">> \o IntToStr(x[1])

\* dt.to_period('M').astype(str): '月份' of a date
MonthBucket(x) == IntToStr(x[1]) \o <<"-">> \o Pad2(x[2])

---------------------------------------------------------------------------
(* Generic helpers *)

Range(s) == {s[i] : i \in 1..Len(s)}

\* the sequence s as a tuple of its elements, each computed once
Seq1(s) == LET T(x) == TRUE IN SelectSeq(s, T)

RECURSIVE Row(_, _)
\* the row (a function on column names) with the given cells
Row(cols, cells) ==
  IF Len(cols) = 1 THEN Head(cols) :> Head(cells)
  ELSE (Head(cols) :> Head(cells)) @@ Row(Tail(cols), Tail(cells))

\* [x for x in s if x in S]
Keep(s, S) == LET T(x) == x \in S IN SelectSeq(s, T)

RECURSIVE InsertStr(_, _)
\* the ascending sequence s with the string x put in its place
InsertStr(x, s) ==
  IF s = <<>> THEN <<x>>
  ELSE IF StrLT(x, Head(s)) THEN <<x>> \o s
  ELSE <<Head(s)>> \o InsertStr(x, Tail(s))

RECURSIVE SortedStr(_)
\* sorted(S) of a set of strings
SortedStr(S) ==
  IF S = {} THEN <<>>
  ELSE LET x == CHOOSE x \in S : TRUE
       IN InsertStr(x, SortedStr(S \ {x}))

RECURSIVE SumSeq(_)
SumSeq(s) == IF s = <<>> THEN 0 ELSE Head(s) + SumSeq(Tail(s))

Reverse(s) == Seq1([i \in 1..Len(s) |-> s[Len(s) + 1 - i]])

\* all orderings of the elements of a sequence
Orderings(s) ==
  {Seq1([i \in 1..Len(s) |-> s[p[i]]]) : p \in Permutations(1..Len(s))}

---------------------------------------------------------------------------
(* The spreadsheet read by pd.read_excel *)

D1 == <<"D", "1">>
D2 == <<"D", "2">>
S1 == <<"S", "1">>
S2 == <<"S", "2">>
T1 == <<"T", "1">>
T2 == <<"T", "2">>

AllColumns == {RIQI, QU, XUEXIAO, JIAOSHI, BANKUAI_A, BANKUAI_B,
               BANKUAI_A_X, COL_W, COL_Y, COL_Z, BEIZHU}

SheetRow(date, qu, school, teacher, a, b, ax, w, y, z) ==
  [c \in AllColumns |->
     CASE c = RIQI -> date
       [] c = QU -> qu
       [] c = XUEXIAO -> school
       [] c = JIAOSHI -> teacher
       [] c = BANKUAI_A -> a
       [] c = BANKUAI_B -> b
       [] c = BANKUAI_A_X -> ax
       [] c = COL_W -> w
       [] c = COL_Y -> y
       [] c = COL_Z -> z
       [] OTHER -> <<"R">>]

\* the rows a generated sheet is made of
RowPool == {
  SheetRow(<<2024, 8, 31>>, D1, S2, T2, 1, 2, 3, 0, 3, -1),
  SheetRow(<<2024, 9, 1>>, D2, S1, T1, 2, 0, -3, 0, 0, 0),
  SheetRow(<<2024, 8, 1>>, D1, S2, T1, 4, 1, 0, 2, -3, 1),
  SheetRow(<<2025, 1, 15>>, D2, NaN, NaN, 8, 3, 1, -2, 1, -2),
  SheetRow(<<2024, 8, 15>>, D2, S1, T1, 16, 5, -1, 1, 2, 0) }

\* a header typed with a trailing blank, which load_data strips
RIQI_BLANK == <<"ri", "qi", " ">>

\* the header rows of the generated sheets
ColumnSets == {
  <<RIQI, QU, XUEXIAO, JIAOSHI, BANKUAI_A, BANKUAI_B, BANKUAI_A_X, COL_Y, BEIZHU>>,
  <<RIQI, QU, XUEXIAO, JIAOSHI, COL_W, COL_Y, COL_Z, BEIZHU>>,
  <<RIQI, XUEXIAO, BEIZHU>>,
  <<RIQI, QU, BANKUAI_A, BANKUAI_B>>,
  <<RIQI_BLANK, QU, XUEXIAO, BANKUAI_B, COL_Y>>,
  <<QU, XUEXIAO, BANKUAI_A>> }

\* the column of the pool a header names
PoolColumn(h) == IF h = RIQI_BLANK THEN RIQI ELSE h

Sheet(header, rows) ==
  [columns |-> header,
   rows |-> [i \in 1..Len(rows) |->
               [h \in Range(header) |-> rows[i][PoolColumn(h)]]]]

RowSeqs == UNION {[1..n -> RowPool] : n \in 1..MaxRows}

RawTables == {Sheet(h, rs) : h \in ColumnSets, rs \in RowSeqs}

\* a two-digit name: a letter and a number below 100
Name2(letter, i) == <<letter, DigitChar(i \div 10), DigitChar(i % 10)>>

\* the first day of the i-th month counted from January 2024
MonthNo(i) == <<2024 + (i - 1) \div 12, ((i - 1) % 12) + 1, 1>>

RosterSchools == CapComp + 1
RosterTeachers == CapTeachers + 1

\* a sheet with one school more than the largest school cap and, in its first
\* school, one teacher more than the teacher cap; every row in a month of its own
RosterRows ==
  [i \in 1..RosterSchools + RosterTeachers - 1 |->
     [c \in {RIQI, QU, XUEXIAO, JIAOSHI, BANKUAI_A} |->
        CASE c = RIQI -> MonthNo(i)
          [] c = QU -> D1
          [] c = XUEXIAO -> IF i <= RosterSchools THEN Name2("R", i) ELSE Name2("R", 1)
          [] c = JIAOSHI -> IF i <= RosterSchools THEN Name2("T", 1)
                            ELSE Name2("T", i - RosterSchools + 1)
          [] OTHER -> i]]

RosterTable ==
  [columns |-> <<RIQI, QU, XUEXIAO, JIAOSHI, BANKUAI_A>>, rows |-> RosterRows]

EmptyDF == [columns |-> <<>>, rows |-> <<>>]

---------------------------------------------------------------------------
(* load_data and column discovery *)

RECURSIVE Strip(_)
\* str.strip of surrounding blanks
Strip(s) ==
  IF s = <<>> THEN s
  ELSE IF Head(s) = " " THEN Strip(Tail(s))
  ELSE IF s[Len(s)] = " " THEN Strip(SubSeq(s, 1, Len(s) - 1))
  ELSE s

\* the header after df.columns.str.strip()
StrippedColumns(t) == [i \in 1..Len(t.columns) |-> Strip(t.columns[i])]

\* does load_data raise KeyError (line 15)
LoadFails(t) == RIQI \notin Range(StrippedColumns(t))

\* df[name] = values: the column list after assigning a column
WithColumn(cols, name) == IF name \in Range(cols) THEN cols ELSE Append(cols, name)

\* load_data, lines 11-23, for a sheet that has the date column
load_data(t) ==
  LET cols == StrippedColumns(t)
      src(c) == CHOOSE h \in Range(t.columns) : Strip(h) = c
      all == WithColumn(WithColumn(cols, XUENIAN), YUEFEN)
  IN [columns |-> all,
      rows |-> [i \in 1..Len(t.rows) |->
         [c \in Range(all) |->
            IF c = XUENIAN THEN AcademicYear(t.rows[i][src(RIQI)])
            ELSE IF c = YUEFEN THEN MonthBucket(t.rows[i][src(RIQI)])
            ELSE t.rows[i][src(c)]]]]

\* line 39
known == {RIQI, XUENIAN, YUEFEN, QU, XUEXIAO, JIAOSHI, BANKUAI_A, BANKUAI_B}

\* line 40
prefixed(d) ==
  LET T(c) == StartsWith(c, BANKUAI_A) \/ StartsWith(c, BANKUAI_B)
  IN SelectSeq(d.columns, T)

\* line 44
numeric_cols(d) ==
  LET T(c) == DType(c) = "number" /\ c \notin known
  IN SelectSeq(d.columns, T)

\* lines 40-45
DiscoverItems(d) == IF prefixed(d) # <<>> THEN prefixed(d) ELSE numeric_cols(d)

---------------------------------------------------------------------------
(* State machine *)

\* what a block of the script put on the page: kind is "none", "info",
\* "warning", "chart" or "error"; sel is the widget's selection, used the
\* selection after the cap, warned whether the cap warning was shown, col the
\* summed column and data the rows handed to the chart
Out(tab, kind, sel, used, warned, col, data) ==
  [tab |-> tab, kind |-> kind, sel |-> sel, used |-> used, warned |-> warned,
   col |-> col, data |-> data]

Show(tab, kind) == Out(tab, kind, <<>>, <<>>, FALSE, None, <<>>)

NoOut == Show("none", "none")

Start ==
  /\ pc = "load"
  /\ df = EmptyDF
  /\ ALL_ITEMS = <<>>
  /\ time_unit = "month"
  /\ start_date = <<0, 0, 0>>
  /\ end_date = <<0, 0, 0>>
  /\ selected_district = ALL_DISTRICTS
  /\ selected_schools = <<>>
  /\ filtered_df = EmptyDF
  /\ target_school = None
  /\ school_detail = EmptyDF
  /\ out = NoOut

\* the script about to run for the first time on one of the generated sheets
Init == Start /\ raw \in RawTables

\* the same on the large sheet
InitCap == Start /\ raw = RosterTable

\* lines 25-45: load the sheet, stop on failure, discover the item columns
LoadData ==
  /\ pc = "load"
  /\ IF LoadFails(raw)
     THEN /\ pc' = "stopped"
          /\ out' = Show("load", "error")
          /\ UNCHANGED <<df, ALL_ITEMS>>
     ELSE /\ pc' = "sidebar"
          /\ df' = load_data(raw)
          /\ ALL_ITEMS' = DiscoverItems(load_data(raw))
          /\ out' = NoOut
  /\ UNCHANGED <<raw, time_unit, start_date, end_date, selected_district,
                 selected_schools, filtered_df, target_school, school_detail>>

---------------------------------------------------------------------------
(* Sidebar, lines 50-83 *)

\* df[col] of every row, in row order
Column(d, col) == Seq1([i \in 1..Len(d.rows) |-> d.rows[i][col]])

\* sorted(df[col].dropna().unique().tolist())
SortedUnique(d, col) == SortedStr(Range(Column(d, col)) \ {NaN})

\* df[df[col] == value]
WhereEq(d, col, value) ==
  LET T(r) == r[col] = value
  IN [columns |-> d.columns, rows |-> SelectSeq(d.rows, T)]

\* df[df[col].isin(values)]
WhereIn(d, col, values) ==
  LET T(r) == r[col] \in Range(values)
  IN [columns |-> d.columns, rows |-> SelectSeq(d.rows, T)]

\* df['日期'].min() and .max()
min_date(d) == CHOOSE x \in Range(Column(d, RIQI)) :
                 \A y \in Range(Column(d, RIQI)) : DateLE(x, y)
max_date(d) == CHOOSE x \in Range(Column(d, RIQI)) :
                 \A y \in Range(Column(d, RIQI)) : DateLE(y, x)

\* what st.date_input can return: a pair of dates, or a single date in a
\* tuple while the user has picked only the first end of the range
DateRanges(d) ==
  LET days == {min_date(d), max_date(d)}
  IN {p \in days \X days : DateLE(p[1], p[2])} \cup {<<a>> : a \in days}

\* lines 58-64
RangeStart(date_range) == date_range[1]
RangeEnd(date_range) == IF Len(date_range) = 2 THEN date_range[2] ELSE date_range[1]

\* line 70
districts(d) == IF QU \in Range(d.columns) THEN SortedUnique(d, QU) ELSE <<>>

\* line 71
district_options(d) == <<ALL_DISTRICTS>> \o districts(d)

\* lines 75-81
school_choices(d, district) ==
  IF XUEXIAO \in Range(d.columns)
  THEN IF district # ALL_DISTRICTS
       THEN SortedUnique(WhereEq(d, QU, district), XUEXIAO)
       ELSE SortedUnique(d, XUEXIAO)
  ELSE <<>>

\* how many of n options the user picks: a few, all, or as many as a cap
\* allows and one more
PickCounts(n) ==
  {k \in 0..n : \/ k <= MaxPick
                \/ k = n
                \/ k \in {CapLocal, CapLocal + 1, CapComp, CapComp + 1,
                          CapTeachers, CapTeachers + 1}}

\* what st.multiselect can return: options in the order the user picked them;
\* the picks run from either end of the option list
Selections(options) ==
  {SubSeq(o, 1, k) : o \in {options, Reverse(options)}, k \in PickCounts(Len(options))}

Sidebar ==
  /\ pc = "sidebar"
  /\ \E unit \in {"month", "year"}, date_range \in DateRanges(df),
        district \in Range(district_options(df)) :
       \E schools \in Selections(school_choices(df, district)) :
          /\ time_unit' = unit
          /\ start_date' = RangeStart(date_range)
          /\ end_date' = RangeEnd(date_range)
          /\ selected_district' = district
          /\ selected_schools' = schools
  /\ pc' = "filter"
  /\ out' = NoOut
  /\ UNCHANGED <<raw, df, ALL_ITEMS, filtered_df, target_school, school_detail>>

---------------------------------------------------------------------------
(* Global filter, lines 88-95 *)

InDateRangeExclusive(d, start, end) ==
  LET T(r) == DateLE(start, r[RIQI]) /\ DateLT(r[RIQI], end)
  IN [columns |-> d.columns, rows |-> SelectSeq(d.rows, T)]

\* line 88
InDateRange(d, start, end) ==
  LET T(r) == DateLE(start, r[RIQI]) /\ DateLE(r[RIQI], end)
  IN [columns |-> d.columns, rows |-> SelectSeq(d.rows, T)]

\* lines 89-90
InDistrict(d, district) ==
  IF district # ALL_DISTRICTS THEN WhereEq(d, QU, district) ELSE d

\* lines 91-92
InSchools(d, schools) ==
  IF schools # <<>> THEN WhereIn(d, XUEXIAO, schools) ELSE d

\* lines 88-92
FilterView(d, start, end, district, schools) ==
  InSchools(InDistrict(InDateRange(d, start, end), district), schools)

Filter ==
  /\ pc = "filter"
  /\ filtered_df' = FilterView(df, start_date, end_date, selected_district,
                               selected_schools)
  /\ out' = Show("filter", IF filtered_df'.rows = <<>> THEN "warning" ELSE "none")
  /\ pc' = "tab1"
  /\ UNCHANGED <<raw, df, ALL_ITEMS, time_unit, start_date, end_date,
                 selected_district, selected_schools, target_school, school_detail>>


---------------------------------------------------------------------------
(* Aggregation: groupby(...)[...].sum().reset_index() and sort_values *)

KeyOf(r, keycols) == Seq1([i \in 1..Len(keycols) |-> r[keycols[i]]])

RECURSIVE KeyLT(_, _)
\* order of group keys: tuples of strings, compared left to right
KeyLT(a, b) ==
  IF a = <<>> THEN FALSE
  ELSE IF Head(a) = Head(b) THEN KeyLT(Tail(a), Tail(b))
  ELSE StrLT(Head(a), Head(b))

RECURSIVE InsertKey(_, _)
InsertKey(x, s) ==
  IF s = <<>> THEN <<x>>
  ELSE IF KeyLT(x, Head(s)) THEN <<x>> \o s
  ELSE <<Head(s)>> \o InsertKey(x, Tail(s))

RECURSIVE SortedKeys(_)
\* the group keys in ascending order
SortedKeys(K) ==
  IF K = {} THEN <<>>
  ELSE LET x == CHOOSE x \in K : TRUE
       IN InsertKey(x, SortedKeys(K \ {x}))

\* the sum of column v over the rows of d with group key k
GroupSum(d, keycols, k, v) ==
  LET T(r) == KeyOf(r, keycols) = k
  IN SumSeq(Column([columns |-> d.columns, rows |-> SelectSeq(d.rows, T)], v))

GroupByLast(d, keycols, valcols) ==
  LET T(r) == \A i \in 1..Len(keycols) : r[keycols[i]] # NaN
      rows == SelectSeq(d.rows, T)
      keys == SortedKeys({KeyOf(rows[i], keycols) : i \in 1..Len(rows)})
      last(k) == rows[CHOOSE i \in 1..Len(rows) : KeyOf(rows[i], keycols) = k
                      /\ \A j \in i + 1..Len(rows) : KeyOf(rows[j], keycols) # k]
  IN [columns |-> keycols \o valcols,
      rows |-> Seq1([n \in 1..Len(keys) |->
         Row(keycols \o valcols,
             keys[n] \o Seq1([i \in 1..Len(valcols) |-> last(keys[n])[valcols[i]]]))])]

\* d.groupby(keycols)[valcols].sum().reset_index(): one row per group key,
\* rows with an empty key cell dropped, groups in ascending key order
GroupBySum(d, keycols, valcols) ==
  LET T(r) == \A i \in 1..Len(keycols) : r[keycols[i]] # NaN
      rows == SelectSeq(d.rows, T)
      keys == SortedKeys({KeyOf(rows[i], keycols) : i \in 1..Len(rows)})
  IN [columns |-> keycols \o valcols,
      rows |-> Seq1([n \in 1..Len(keys) |->
         Row(keycols \o valcols,
             keys[n] \o Seq1([i \in 1..Len(valcols) |->
                                GroupSum(d, keycols, keys[n], valcols[i])]))])]

RECURSIVE ConcatOrderings(_)
\* the sequences made of some ordering of each group, groups in turn
ConcatOrderings(groups) ==
  IF groups = <<>> THEN {<<>>}
  ELSE {a \o b : a \in Orderings(Head(groups)), b \in ConcatOrderings(Tail(groups))}

\* lines 116, 166, 189, 224: '月份_dt', the month string + '-01' as a datetime
MonthStart(r) == ToDatetime(r[YUEFEN] \o <<"-", "0", "1">>)

RECURSIVE InsertDate(_, _)
InsertDate(x, s) ==
  IF s = <<>> THEN <<x>>
  ELSE IF DateLT(x, Head(s)) THEN <<x>> \o s
  ELSE <<Head(s)>> \o InsertDate(x, Tail(s))

RECURSIVE SortedDates(_)
\* a set of dates in ascending order
SortedDates(S) ==
  IF S = {} THEN <<>>
  ELSE LET x == CHOOSE x \in S : TRUE
       IN InsertDate(x, SortedDates(S \ {x}))

RECURSIVE InsertInt(_, _)
InsertInt(x, s) ==
  IF s = <<>> THEN <<x>>
  ELSE IF x < Head(s) THEN <<x>> \o s
  ELSE <<Head(s)>> \o InsertInt(x, Tail(s))

RECURSIVE SortedInts(_)
\* a set of integers in ascending order
SortedInts(S) ==
  IF S = {} THEN <<>>
  ELSE LET x == CHOOSE x \in S : TRUE
       IN InsertInt(x, SortedInts(S \ {x}))

\* the rows whose sort key (key[i] for rows[i]) is k, in their order
RowsWithKey(rows, key, k) ==
  LET T(i) == key[i] = k
      at == SelectSeq(Seq1([i \in 1..Len(rows) |-> i]), T)
  IN Seq1([j \in 1..Len(at) |-> rows[at[j]]])

\* what sort_values can return for rows with the keys key[i], order being the
\* distinct keys ascending.  The default sort is quicksort, which is not
\* stable: rows of equal key come out in any order.
SortRows(rows, key, order) ==
  ConcatOrderings(Seq1([n \in 1..Len(order) |-> RowsWithKey(rows, key, order[n])]))

SortByMonthDescending(d) ==
  LET key == Seq1([i \in 1..Len(d.rows) |-> MonthStart(d.rows[i])])
  IN {[columns |-> d.columns, rows |-> rs] :
        rs \in SortRows(d.rows, key, Reverse(SortedDates(Range(key))))}

\* lines 116-117, 166-167, 189-190, 224-225: the frames
\* d.sort_values('月份_dt') can return
SortByMonth(d) ==
  LET key == Seq1([i \in 1..Len(d.rows) |-> MonthStart(d.rows[i])])
  IN {[columns |-> d.columns, rows |-> rs] :
        rs \in SortRows(d.rows, key, SortedDates(Range(key)))}

\* line 124: the start year of a '学年' string
YearStart(r) == StrToInt(SplitFirst(r[XUENIAN], "-"))

\* lines 124-125: the frames d.sort_values('学年_start') can return
SortByYear(d) ==
  LET key == Seq1([i \in 1..Len(d.rows) |-> YearStart(d.rows[i])])
  IN {[columns |-> d.columns, rows |-> rs] :
        rs \in SortRows(d.rows, key, SortedInts(Range(key)))}

---------------------------------------------------------------------------
(* Tab 1, lines 104-135: overview trend *)

\* line 106
group_col(unit) == IF unit = "month" THEN YUEFEN ELSE XUENIAN

\* line 107
sum_cols(d) == Keep(<<BANKUAI_A, BANKUAI_B>>, Range(d.columns))

\* lines 111-129: the frames trend_data can be
trend_data(d, unit) ==
  IF unit = "month"
  THEN SortByMonth(GroupBySum(d, <<YUEFEN>>, sum_cols(d)))
  ELSE SortByYear(GroupBySum(d, <<XUENIAN>>, sum_cols(d)))

Tab1 ==
  /\ pc = "tab1"
  /\ IF sum_cols(filtered_df) = <<>>
     THEN out' = Show("tab1", "info")
     ELSE \E t \in trend_data(filtered_df, time_unit) :
            out' = Out("tab1", "chart", <<>>, <<>>, FALSE,
                       group_col(time_unit), t.rows)
  /\ pc' = "tab2"
  /\ UNCHANGED <<raw, df, ALL_ITEMS, time_unit, start_date, end_date,
                 selected_district, selected_schools, filtered_df,
                 target_school, school_detail>>

---------------------------------------------------------------------------
(* Selection caps, continued *)

CapLast(selection, n) ==
  IF Len(selection) > n
  THEN SubSeq(selection, Len(selection) - n + 1, Len(selection))
  ELSE selection

\* lines 152-154, 181-183, 216-218: selection[:n]
Cap(selection, n) == IF Len(selection) > n THEN SubSeq(selection, 1, n) ELSE selection

\* the conditions of lines 152, 181, 216
OverCap(selection, n) == Len(selection) > n

---------------------------------------------------------------------------
(* Tab 2, lines 138-172: schools of the district *)

\* lines 144-148
district_df(d, district) ==
  IF district # ALL_DISTRICTS THEN WhereEq(d, QU, district) ELSE d

\* line 160
compare_col(d) ==
  IF BANKUAI_A \in Range(d.columns) THEN BANKUAI_A
  ELSE IF BANKUAI_B \in Range(d.columns) THEN BANKUAI_B
  ELSE None

Tab2 ==
  /\ pc = "tab2"
  /\ IF XUEXIAO \notin Range(filtered_df.columns)
     THEN out' = Show("tab2", "info")
     ELSE \E local_schools \in
               Selections(SortedUnique(district_df(df, selected_district), XUEXIAO)) :
            LET used == Cap(local_schools, CapLocal)
                warned == OverCap(local_schools, CapLocal)
                comp_df == WhereIn(filtered_df, XUEXIAO, used)
                col == compare_col(comp_df)
            IN IF local_schools = <<>>
               THEN out' = Out("tab2", "none", local_schools, <<>>, FALSE, None, <<>>)
               ELSE IF comp_df.rows = <<>> \/ col = None
               THEN out' = Out("tab2", "info", local_schools, used, warned, col, <<>>)
               ELSE \E t \in SortByMonth(GroupBySum(comp_df, <<YUEFEN, XUEXIAO>>, <<col>>)) :
                      out' = Out("tab2", "chart", local_schools, used, warned, col, t.rows)
  /\ pc' = "tab3"
  /\ UNCHANGED <<raw, df, ALL_ITEMS, time_unit, start_date, end_date,
                 selected_district, selected_schools, filtered_df,
                 target_school, school_detail>>

---------------------------------------------------------------------------
(* Tab 3, lines 175-195: schools across districts *)

\* line 177
all_schools(d) ==
  IF XUEXIAO \in Range(d.columns) THEN SortedUnique(d, XUEXIAO) ELSE <<>>

\* line 179: the options of the metric selectbox
target_options(d, items) == Keep(<<BANKUAI_A, BANKUAI_B>> \o items, Range(d.columns))

\* what st.selectbox can return: an option, or None when there is none
SelectBox(options) == IF options = <<>> THEN {None} ELSE Range(options)

Tab3 ==
  /\ pc = "tab3"
  /\ \E comp_schools \in Selections(all_schools(df)),
        target_col \in SelectBox(target_options(df, ALL_ITEMS)) :
       LET used == Cap(comp_schools, CapComp)
           warned == OverCap(comp_schools, CapComp)
           comp_df == WhereIn(filtered_df, XUEXIAO, used)
       IN IF comp_schools = <<>>
          THEN /\ out' = Out("tab3", "none", comp_schools, <<>>, FALSE, target_col, <<>>)
               /\ pc' = "tab4"
          ELSE IF comp_df.rows = <<>>
          THEN /\ out' = Out("tab3", "info", comp_schools, used, warned, target_col, <<>>)
               /\ pc' = "tab4"
          ELSE IF target_col \notin Range(comp_df.columns)
          \* groupby(...)[None] raises KeyError: the run ends here
          THEN /\ out' = Out("tab3", "error", comp_schools, used, warned, target_col, <<>>)
               /\ pc' = "crashed"
          ELSE /\ \E t \in SortByMonth(GroupBySum(comp_df, <<YUEFEN, XUEXIAO>>,
                                                  <<target_col>>)) :
                     out' = Out("tab3", "chart", comp_schools, used, warned,
                                target_col, t.rows)
               /\ pc' = "tab4"
  /\ UNCHANGED <<raw, df, ALL_ITEMS, time_unit, start_date, end_date,
                 selected_district, selected_schools, filtered_df,
                 target_school, school_detail>>

---------------------------------------------------------------------------
(* Tab 4, lines 198-246: one school *)

\* lines 200-208: the school selectbox and the rows of the school
Tab4School ==
  /\ pc = "tab4"
  /\ IF XUEXIAO \notin Range(filtered_df.columns)
     THEN /\ out' = Show("tab4", "info")
          /\ pc' = "done"
          /\ UNCHANGED <<target_school, school_detail>>
     ELSE \E school \in SelectBox(SortedUnique(filtered_df, XUEXIAO)) :
            /\ target_school' = school
            /\ school_detail' = WhereEq(filtered_df, XUEXIAO, school)
            /\ IF school_detail'.rows = <<>>
               THEN /\ out' = Show("tab4", "info")
                    /\ pc' = "done"
               ELSE /\ out' = Show("tab4", "none")
                    /\ pc' = "tab4_teachers"
  /\ UNCHANGED <<raw, df, ALL_ITEMS, time_unit, start_date, end_date,
                 selected_district, selected_schools, filtered_df>>

\* lines 211-230: teachers of the school
Tab4Teachers ==
  /\ pc = "tab4_teachers"
  /\ IF JIAOSHI \notin Range(school_detail.columns)
     THEN out' = Show("tab4_teachers", "info")
     ELSE \E teachers \in Selections(SortedUnique(school_detail, JIAOSHI)) :
            LET used == Cap(teachers, CapTeachers)
                warned == OverCap(teachers, CapTeachers)
                tdf == WhereIn(school_detail, JIAOSHI, used)
            IN IF teachers = <<>>
               THEN out' = Out("tab4_teachers", "none", teachers, <<>>, FALSE, None, <<>>)
               ELSE IF BANKUAI_A \notin Range(tdf.columns)
               THEN out' = Out("tab4_teachers", "info", teachers, used, warned, None, <<>>)
               ELSE \E t \in SortByMonth(GroupBySum(tdf, <<YUEFEN, JIAOSHI>>,
                                                    <<BANKUAI_A>>)) :
                      out' = Out("tab4_teachers", "chart", teachers, used, warned,
                                 BANKUAI_A, t.rows)
  /\ pc' = "tab4_items"
  /\ UNCHANGED <<raw, df, ALL_ITEMS, time_unit, start_date, end_date,
                 selected_district, selected_schools, filtered_df,
                 target_school, school_detail>>

\* '项目' and '使用量', the columns of item_sum
XIANGMU == <<"xiang", "mu">>
SHIYONGLIANG == <<"shi", "yong", "liang">>

item_sum_nonzero(d, items) ==
  LET N(c) == DType(c) = "number"
      cs == SelectSeq(items, N)
      P(r) == r[SHIYONGLIANG] # 0
  IN SelectSeq([i \in 1..Len(cs) |->
                  Row(<<XIANGMU, SHIYONGLIANG>>, <<cs[i], SumSeq(Column(d, cs[i]))>>)], P)

\* lines 236-238: the sums of the numeric item columns that are above zero
item_sum(d, items) ==
  LET N(c) == DType(c) = "number"
      cs == SelectSeq(items, N)
      P(r) == r[SHIYONGLIANG] > 0
  IN SelectSeq([i \in 1..Len(cs) |->
                  Row(<<XIANGMU, SHIYONGLIANG>>, <<cs[i], SumSeq(Column(d, cs[i]))>>)], P)

\* lines 233-246: item distribution of the school
Tab4Items ==
  /\ pc = "tab4_items"
  /\ IF ALL_ITEMS # <<>>
     THEN IF item_sum(school_detail, ALL_ITEMS) = <<>>
          THEN out' = Show("tab4_items", "info")
          ELSE out' = Out("tab4_items", "chart", <<>>, <<>>, FALSE, None,
                          item_sum(school_detail, ALL_ITEMS))
     ELSE out' = Show("tab4_items", "info")
  /\ pc' = "done"
  /\ UNCHANGED <<raw, df, ALL_ITEMS, time_unit, start_date, end_date,
                 selected_district, selected_schools, filtered_df,
                 target_school, school_detail>>

---------------------------------------------------------------------------

\* a user interaction: the script runs again from the top.  df is cached,
\* every other name of the script is assigned anew and every widget is read
\* anew.  After st.stop() the next run loads the sheet again.
Rerun ==
  /\ pc \in {"done", "crashed", "stopped"}
  /\ pc' = IF pc = "stopped" THEN "load" ELSE "sidebar"
  /\ time_unit' = "month"
  /\ start_date' = <<0, 0, 0>>
  /\ end_date' = <<0, 0, 0>>
  /\ selected_district' = ALL_DISTRICTS
  /\ selected_schools' = <<>>
  /\ filtered_df' = EmptyDF
  /\ target_school' = None
  /\ school_detail' = EmptyDF
  /\ out' = NoOut
  /\ UNCHANGED <<raw, df, ALL_ITEMS>>

Next ==
  \/ LoadData
  \/ Sidebar
  \/ Filter
  \/ Tab1
  \/ Tab2
  \/ Tab3
  \/ Tab4School
  \/ Tab4Teachers
  \/ Tab4Items
  \/ Rerun

Spec == Init /\ [][Next]_vars

SpecCap == InitCap /\ [][Next]_vars

---------------------------------------------------------------------------
(* Properties *)

\* the script holds a loaded frame
Loaded == pc \notin {"load", "stopped"}

\* the global filter of this run has been applied
Filtered == pc \in {"tab1", "tab2", "tab3", "tab4", "tab4_teachers",
                    "tab4_items", "done", "crashed"}

\* first year of the school year a date lies in: September starts a new one
SchoolYearOf(x) == IF x[2] >= 9 THEN x[1] ELSE x[1] - 1

\* the sum of column c over the rows of a sequence
Total(rows, c) == SumSeq(Seq1([i \in 1..Len(rows) |-> rows[i][c]]))

\* C1: every loaded record's '学年' is fixed by its date: "Y-Y+1" with Y the
\* calendar year from September on and the year before otherwise, so that
\* 31 August and 1 September of one year never share a school year
C1_AcademicYear ==
  Loaded =>
    \A i \in 1..Len(df.rows) :
      LET r == df.rows[i]
          y == SchoolYearOf(r[RIQI])
      IN /\ r[XUENIAN] = IntToStr(y) \o <<"-">> \o IntToStr(y + 1)
         /\ StrToInt(SplitFirst(r[XUENIAN], "-")) = y
         /\ StrToInt(AfterFirst(r[XUENIAN], "-")) = y + 1
         /\ \A j \in 1..Len(df.rows) :
              LET q == df.rows[j]
              IN /\ q[RIQI] = r[RIQI] => q[XUENIAN] = r[XUENIAN]
                 /\ (r[RIQI][2] = 8 /\ r[RIQI][3] = 31 /\
                     q[RIQI] = <<r[RIQI][1], 9, 1>>) => q[XUENIAN] # r[XUENIAN]

\* a loaded sheet holding both 31 August and 1 September 2024
C1_Witness ==
  /\ pc = "sidebar"
  /\ \E i, j \in 1..Len(df.rows) :
       df.rows[i][RIQI] = <<2024, 8, 31>> /\ df.rows[j][RIQI] = <<2024, 9, 1>>

\* C2: filtered_df is exactly the rows of df with start_date <= date <=
\* end_date, in the chosen district if one is chosen, and of a chosen school
\* unless no school is chosen; the three conditions give the same rows in
\* any order of application
C2_FilteredView ==
  Filtered =>
    LET P(r) == /\ DateLE(start_date, r[RIQI])
                /\ DateLE(r[RIQI], end_date)
                /\ selected_district = ALL_DISTRICTS \/ r[QU] = selected_district
                /\ selected_schools = <<>> \/ r[XUEXIAO] \in Range(selected_schools)
        byDate(d) == InDateRange(d, start_date, end_date)
        byDistrict(d) == InDistrict(d, selected_district)
        bySchools(d) == InSchools(d, selected_schools)
    IN /\ filtered_df.columns = df.columns
       /\ filtered_df.rows = SelectSeq(df.rows, P)
       /\ filtered_df = bySchools(byDate(byDistrict(df)))
       /\ filtered_df = byDistrict(bySchools(byDate(df)))
       /\ filtered_df = byDate(byDistrict(bySchools(df)))
       /\ filtered_df = byDistrict(byDate(bySchools(df)))
       /\ selected_schools = <<>> => filtered_df = byDistrict(byDate(df))

\* a district and a school are chosen, the view keeps a row dated on an end
\* of the range and drops another row
C2_Witness ==
  /\ pc = "tab1"
  /\ selected_district # ALL_DISTRICTS
  /\ selected_schools # <<>>
  /\ Len(filtered_df.rows) < Len(df.rows)
  /\ \E i \in 1..Len(filtered_df.rows) :
       filtered_df.rows[i][RIQI] \in {start_date, end_date}

\* C3: the overview trend has one entry per month (or school year) present in
\* the view, each with the sums of the segment columns over the rows of that
\* bucket, in ascending calendar order, whatever the order of the rows
C3_Trend ==
  (out.tab = "tab1" /\ out.kind = "chart") =>
    LET rows == filtered_df.rows
        col == IF time_unit = "month" THEN YUEFEN ELSE XUENIAN
        \* the bucket as the calendar gives it
        When(r) == IF time_unit = "month" THEN <<r[RIQI][1], r[RIQI][2], 1>>
                   ELSE <<SchoolYearOf(r[RIQI]), 9, 1>>
        Members(e) == LET T(r) == r[col] = e[col] IN SelectSeq(rows, T)
    IN /\ out.col = col
       /\ \A i \in 1..Len(rows) :
            Cardinality({n \in 1..Len(out.data) : out.data[n][col] = rows[i][col]}) = 1
       /\ \A n \in 1..Len(out.data) :
            /\ Members(out.data[n]) # <<>>
            /\ \A c \in {BANKUAI_A, BANKUAI_B} \cap Range(filtered_df.columns) :
                 out.data[n][c] = Total(Members(out.data[n]), c)
       /\ \A n, m \in 1..Len(out.data) :
            n < m => \A a \in Range(Members(out.data[n])), b \in Range(Members(out.data[m])) :
                       DateLT(When(a), When(b))

\* a monthly trend of two entries drawn from rows that come latest first,
\* across a change of year
C3_Witness ==
  /\ out.tab = "tab1"
  /\ out.kind = "chart"
  /\ time_unit = "month"
  /\ Len(out.data) = 2
  /\ Len(filtered_df.rows) = 2
  /\ filtered_df.rows[1][RIQI][1] > filtered_df.rows[2][RIQI][1]

\* the cap of the comparison whose result is on the page
CapOf(tab) == CASE tab = "tab2" -> CapLocal
                [] tab = "tab3" -> CapComp
                [] tab = "tab4_teachers" -> CapTeachers

\* the column of the entities a comparison is about
EntityOf(tab) == IF tab = "tab4_teachers" THEN JIAOSHI ELSE XUEXIAO

\* the rows a comparison selects its entities from
ViewOf(tab) == IF tab = "tab4_teachers" THEN school_detail ELSE filtered_df

Comparison == out.tab \in {"tab2", "tab3", "tab4_teachers"} /\ out.sel # <<>>

\* C4: a selection longer than the cap (10 schools, 20 schools, 10 teachers)
\* is cut to its first N entries in selection order with a warning, a
\* selection within the cap is used as it is without a warning, and the
\* comparison is then made of exactly the entities used; a long selection
\* never ends the run
C4_SelectionCap ==
  Comparison =>
    LET n == CapOf(out.tab)
        e == EntityOf(out.tab)
    IN /\ Len(out.sel) > n =>
            /\ out.used = SubSeq(out.sel, 1, n)
            /\ out.warned
            /\ out.kind # "error"
       /\ Len(out.sel) <= n => out.used = out.sel /\ ~out.warned
       /\ out.kind = "chart" =>
            {out.data[i][e] : i \in 1..Len(out.data)} =
              Range(SubSeq(out.sel, 1, IF Len(out.sel) > n THEN n ELSE Len(out.sel)))
                \cap Range(Column(ViewOf(out.tab), e))

\* one school more than the cap picked from the end of the list for the
\* comparison inside the district, and a chart drawn
C4_Witness ==
  /\ out.tab = "tab2"
  /\ out.kind = "chart"
  /\ Len(out.sel) = CapLocal + 1
  /\ out.sel[1] = Name2("R", RosterSchools)
  /\ Len(out.data) = CapLocal

\* C5: ALL_ITEMS holds no reserved column name
C5_ItemsExcludeReserved ==
  Loaded => \A i \in 1..Len(ALL_ITEMS) : ALL_ITEMS[i] \notin known

\* C6: with no school chosen in the sidebar, the comparison across districts
\* covers every row of the chosen schools inside the date range, whatever
\* district is chosen in the sidebar
C6_NoDistrictRestriction ==
  (out.tab = "tab3" /\ out.sel # <<>> /\ out.kind # "error"
     /\ selected_schools = <<>>) =>
    LET T(r) == /\ DateLE(start_date, r[RIQI])
                /\ DateLE(r[RIQI], end_date)
                /\ r[XUEXIAO] \in Range(out.used)
        rows == SelectSeq(df.rows, T)
    IN {<<out.data[i][YUEFEN], out.data[i][XUEXIAO]>> : i \in 1..Len(out.data)}
         = {<<rows[i][YUEFEN], rows[i][XUEXIAO]>> : i \in 1..Len(rows)}

\* C7: no query ends the run with an error
C7_NeverRaises == pc # "crashed"

\* C8: no chart is drawn from an empty filtered view
C8_NoChartWhenEmpty ==
  (Filtered /\ filtered_df.rows = <<>>) => out.kind # "chart"

\* C9: the item distribution of the chosen school lists exactly the item
\* columns whose sum over the school's rows of the view is above zero, each
\* with that sum, and shows a notice instead of a chart when there is none
C9_ItemBreakdown ==
  (out.tab = "tab4_items") =>
    LET T(r) == r[XUEXIAO] = target_school
        rows == SelectSeq(filtered_df.rows, T)
        P(c) == Total(rows, c) > 0
        positive == SelectSeq(ALL_ITEMS, P)
    IN /\ rows # <<>>
       /\ school_detail.rows = rows
       /\ out.kind = (IF positive = <<>> THEN "info" ELSE "chart")
       /\ Len(out.data) = Len(positive)
       /\ \A i \in 1..Len(positive) :
            /\ out.data[i][XIANGMU] = positive[i]
            /\ out.data[i][SHIYONGLIANG] = Total(rows, positive[i])

\* of three plain item columns one sums to zero and one below zero, and the
\* chart shows the third alone
C9_Witness ==
  /\ out.tab = "tab4_items"
  /\ out.kind = "chart"
  /\ Len(out.data) = 1
  /\ Len(ALL_ITEMS) = 3
  /\ Range(ALL_ITEMS) \cap known = {}
  /\ \E c \in Range(ALL_ITEMS) : Total(school_detail.rows, c) = 0
  /\ \E c \in Range(ALL_ITEMS) : Total(school_detail.rows, c) < 0

\* the rows a comparison aggregates: those of the entities used
Compared ==
  LET e == EntityOf(out.tab)
      T(r) == r[e] \in Range(out.used)
  IN SelectSeq(ViewOf(out.tab).rows, T)

\* where an entity first occurs in the rows a comparison aggregates
FirstSeen(x) ==
  CHOOSE i \in 1..Len(Compared) :
    /\ Compared[i][EntityOf(out.tab)] = x
    /\ \A j \in 1..i - 1 : Compared[j][EntityOf(out.tab)] # x

\* C10 as stated: within a month the rows of a comparison by month and
\* school (or teacher) follow the order in which the schools (teachers) first
\* occur in the input view
C10_FirstOccurrenceOrder ==
  (Comparison /\ out.kind = "chart") =>
    \A n, m \in 1..Len(out.data) :
      (n < m /\ out.data[n][YUEFEN] = out.data[m][YUEFEN]) =>
        FirstSeen(out.data[n][EntityOf(out.tab)])
          < FirstSeen(out.data[m][EntityOf(out.tab)])

\* C10 amended: a comparison by month and school (or teacher) has exactly one
\* row for every month and entity that occur together in its input, holding
\* the sum of the compared column, and its rows are in ascending month order
C10_MonthOrder ==
  (Comparison /\ out.kind = "chart") =>
    LET e == EntityOf(out.tab)
        Members(x) == LET T(r) == r[YUEFEN] = x[YUEFEN] /\ r[e] = x[e]
                      IN SelectSeq(Compared, T)
    IN /\ \A i \in 1..Len(Compared) :
            Cardinality({n \in 1..Len(out.data) :
                           /\ out.data[n][YUEFEN] = Compared[i][YUEFEN]
                           /\ out.data[n][e] = Compared[i][e]}) = 1
       /\ \A n \in 1..Len(out.data) :
            /\ Members(out.data[n]) # <<>>
            /\ out.data[n][out.col] = Total(Members(out.data[n]), out.col)
       /\ \A n, m \in 1..Len(out.data) :
            n < m => \A a \in Range(Members(out.data[n])), b \in Range(Members(out.data[m])) :
                       \/ a[RIQI][1] < b[RIQI][1]
                       \/ a[RIQI][1] = b[RIQI][1] /\ a[RIQI][2] <= b[RIQI][2]

\* a chart in which a month holds two schools or teachers, the one seen later
\* in the view listed first
C10_Witness ==
  /\ Comparison
  /\ out.kind = "chart"
  /\ \E n, m \in 1..Len(out.data) :
       /\ n < m
       /\ out.data[n][YUEFEN] = out.data[m][YUEFEN]
       /\ FirstSeen(out.data[n][EntityOf(out.tab)])
            > FirstSeen(out.data[m][EntityOf(out.tab)])

=============================================================================
